---- MODULE Spec2Model ----
(***************************************************************************)
(* Edge gateway (edge_gateway.py) and dashboard acknowledgment             *)
(* (dashboard.py) of the IIoT wafer manufacturing pipeline, over one       *)
(* PostgreSQL store with the tables sensor_data, production_lines, alerts. *)
(*                                                                         *)
(* The gateway handles one MQTT message at a time (paho's network loop is  *)
(* single threaded); its position inside on_message / store_to_database is *)
(* pc.  The writes of its open transaction are held in txn until commit    *)
(* or rollback.  The dashboard runs in another process on its own          *)
(* connection, so acknowledge_alert interleaves with the gateway's steps.  *)
(* Probabilities are integers in percent.                                  *)
(***************************************************************************)
EXTENDS Integers, Sequences, FiniteSets, TLC

\* ---------------------------------------------------------------- bounds
MaxMsgs == 2
MaxClock == 2
MaxConnects == 3
MaxRows == 2

\* ------------------------------------------------------- program constants
\* by_line keys of EdgeGateway.stats; also the rows of production_lines
Lines == {"Lithography", "Etching", "Deposition"}
\* classes_ of label_encoders['Tool_Type'] (sorted, index = code)
Tool_Type_classes == <<"Deposition", "Etching", "Lithography">>
\* classes_ of label_encoders['Join_Status']
Join_Status_classes == <<"Joining", "Non-Joining">>
\* model_package['threshold'], in percent
threshold == 50

\* ------------------------------------------------------------------ inputs
Wafers == {"W1", "W2"}
\* abstract level of the ten numerical readings; "nan" makes the classifier raise
Readings == {"low", "mid", "high", "nan"}
NoField == "none"

\* row['Timestamp'] of the dataset row of a wafer: W2 was measured after W1
ProducedAt(wafer) == IF wafer = "W2" THEN 2 ELSE 1

\* A decoded JSON object.  missing names a key the payload lacks.
Message(line, wafer, reading) ==
    [kind |-> "json", production_line |-> line, wafer_id |-> wafer,
     timestamp |-> ProducedAt(wafer), reading |-> reading, join_status |-> "Joining",
     actual_defect |-> 0, missing |-> NoField]

NominalMessages ==
    { Message("Etching", w, "high") : w \in Wafers }
    \cup { Message(l, "W1", "low") : l \in Lines }

BaseMessage == Message("Etching", "W1", "high")

EdgeMessages ==
    { [BaseMessage EXCEPT !.join_status = "Unseen"],
      [BaseMessage EXCEPT !.production_line = "Packaging"],
      [BaseMessage EXCEPT !.missing = "rf_power"],
      [BaseMessage EXCEPT !.missing = "production_line"],
      [BaseMessage EXCEPT !.missing = "actual_defect"],
      [BaseMessage EXCEPT !.reading = "nan"],
      [BaseMessage EXCEPT !.reading = "mid"],
      [BaseMessage EXCEPT !.actual_defect = 1],
      [BaseMessage EXCEPT !.kind = "garbage"] }

Messages == NominalMessages \cup EdgeMessages

\* no message is being handled
NoMessage == [kind |-> "none"]

VARIABLES
    sensor_data,       \* committed rows of table sensor_data
    production_lines,  \* committed rows of table production_lines, by line_name
    alerts,            \* committed rows of table alerts
    alert_seq,         \* last value of the serial alerts.id
    now,               \* latest CURRENT_TIMESTAMP a statement has read
    db_conn,           \* EdgeGateway.db_conn: "none", "open", "broken"
    txn,               \* uncommitted writes of the gateway's connection
    pc,                \* position of the gateway inside on_message
    sensor_msg,        \* sensor_data of the message being handled
    prediction,        \* result of predict_defect
    probability,
    inferred,          \* how predict_defect ended: Inference of the message
    stats,             \* EdgeGateway.stats
    received,          \* number of messages delivered so far
    outcome,           \* how store_to_database ended for the message being handled
    discarded,         \* writes the rollback of that message discarded
    dash_conn,         \* dashboard get_db_connection() is not None
    ack_result,        \* what the last acknowledge_alert call returned
    mqtt_conn,         \* gateway's broker session: "disconnected", "connected", "refused"
    last_rc,           \* rc of the last CONNACK handed to on_connect
    connects,          \* number of CONNACKs received so far
    sub_pc,            \* position of the for loop of on_connect, 0 outside it
    subscribed,        \* topics on_connect has called subscribe() for since the last CONNACK
    line_len,          \* simulator: len(line_data[line])
    indices,           \* simulator: indices[line]
    sim_pc,            \* simulator: position in run_simulation
    line_i,            \* simulator: position of the for loop over indices
    msg_count,         \* simulator: msg_count
    rounds,            \* simulator: completed passes of the while loop
    attempted          \* simulator: per line, the publish calls made and their results

mqtt_vars == <<mqtt_conn, last_rc, connects, sub_pc, subscribed>>
sim_vars == <<line_len, indices, sim_pc, line_i, msg_count, rounds, attempted>>

vars == <<sensor_data, production_lines, alerts, alert_seq, now, db_conn, txn,
          pc, sensor_msg, prediction, probability, inferred, stats, received,
          outcome, discarded, dash_conn, ack_result, mqtt_vars, sim_vars>>

gateway_vars == <<db_conn, txn, pc, sensor_msg, prediction, probability,
                  inferred, stats, received, outcome, discarded>>
store_vars == <<sensor_data, production_lines, alerts>>

\* ----------------------------------------------------------------- helpers
Range(s) == { s[i] : i \in DOMAIN s }

IndexOf(s, x) == CHOOSE i \in DOMAIN s : s[i] = x

EmptyTxn == [sensor_data |-> <<>>, production_lines |-> <<>>, alerts |-> <<>>]

TxnWrites(t) == Len(t.sensor_data) + Len(t.production_lines) + Len(t.alerts)

\* ------------------------------------------------------- predict_defect
\* keys predict_defect reads from sensor_data (lines 93-109)
HasFeatureKeys(m) == m.missing \notin {"rf_power", "production_line"}

\* LabelEncoder.transform raises ValueError on a value outside classes_
CanEncode(classes, v) == v \in Range(classes)

Encode(classes, v) == IndexOf(classes, v) - 1

\* the classifier: an opaque function of the scaled feature vector
predict_proba(reading, tool_type, join_code) ==
    CASE reading = "low" -> 10
      [] reading = "mid" -> 50
      [] reading = "high" -> 92

\* the scaler passes NaN through, the classifier raises on it
ModelRaises(m) == m.reading = "nan"

\* how the try block of predict_defect ends (lines 88-125)
Inference(m) ==
    CASE ~HasFeatureKeys(m) -> "key_error"
      [] HasFeatureKeys(m) /\ ~( /\ CanEncode(Tool_Type_classes, m.production_line)
                                /\ CanEncode(Join_Status_classes, m.join_status) )
            -> "unknown_category"
      [] OTHER -> IF ModelRaises(m) THEN "model_error" ELSE "ok"

InferenceOk(m) == Inference(m) = "ok"

\* mutant: the ground-truth flag is fed to the classifier
Proba_leak(m) ==
    IF m.actual_defect = 1
    THEN 100
    ELSE predict_proba(m.reading, Encode(Tool_Type_classes, m.production_line),
                       Encode(Join_Status_classes, m.join_status))

Proba(m) ==
    predict_proba(m.reading, Encode(Tool_Type_classes, m.production_line),
                  Encode(Join_Status_classes, m.join_status))

\* mutant: a probability equal to the threshold is no defect
Decide_strict(proba) == IF proba > threshold THEN 1 ELSE 0

\* line 119: prediction = 1 if proba >= self.threshold else 0
Decide(proba) == IF proba >= threshold THEN 1 ELSE 0

\* returns <<prediction, probability>>; any exception yields <<0, 0>>
predict_defect(m) ==
    IF InferenceOk(m) THEN <<Decide(Proba(m)), Proba(m)>> ELSE <<0, 0>>

\* ---------------------------------------------------- store_to_database
\* keys the INSERT's argument tuple reads (lines 149-166): all of them
StoreArgsOk(m) == m.missing = NoField

\* the sensor_data row of lines 140-167; inference is a history field that
\* records how the prediction stored in the row came about
SensorRow(m, pred, prob, inf) ==
    [production_line |-> m.production_line, wafer_id |-> m.wafer_id,
     timestamp |-> m.timestamp, join_status |-> m.join_status,
     predicted_defect |-> pred, defect_probability |-> prob,
     actual_defect |-> m.actual_defect, inference |-> inf]

\* mutant: a reading in the defect range stops the line
LineUpdate_autostop(m, ts) ==
    [line_name |-> m.production_line,
     status |-> IF m.reading = "high" THEN "Stopped" ELSE "Running",
     current_wafer_id |-> m.wafer_id, last_updated |-> ts]

\* the UPDATE production_lines of lines 170-175
LineUpdate(m, ts) ==
    [line_name |-> m.production_line, status |-> "Running",
     current_wafer_id |-> m.wafer_id, last_updated |-> ts]

\* mutant: the alert stores the decision in place of the probability
AlertRow_decision(id, m, prob) ==
    [id |-> id, production_line |-> m.production_line, wafer_id |-> m.wafer_id,
     defect_probability |-> 1, acknowledged |-> FALSE, acknowledged_at |-> 0]

\* the alerts row of lines 179-188; acknowledged defaults to FALSE and
\* acknowledged_at to NULL (0)
AlertRow(id, m, prob) ==
    [id |-> id, production_line |-> m.production_line, wafer_id |-> m.wafer_id,
     defect_probability |-> prob, acknowledged |-> FALSE, acknowledged_at |-> 0]

\* mutant: an alert for every persisted event
NeedsAlert_always(pred) == TRUE

\* line 178: if prediction == 1
NeedsAlert(pred) == pred = 1

\* mutant: the UPDATE has no WHERE clause
ApplyLineUpdate_all(pl, u) ==
    [l \in DOMAIN pl |->
        [status |-> u.status, current_wafer_id |-> u.current_wafer_id,
         last_updated |-> u.last_updated]]

\* UPDATE ... WHERE line_name = %s touches the row of that name, if any
ApplyLineUpdate(pl, u) ==
    IF u.line_name \in DOMAIN pl
    THEN [pl EXCEPT ![u.line_name] =
             [status |-> u.status, current_wafer_id |-> u.current_wafer_id,
              last_updated |-> u.last_updated]]
    ELSE pl

RECURSIVE ApplyLineUpdates(_, _)
ApplyLineUpdates(pl, us) ==
    IF us = <<>> THEN pl
    ELSE ApplyLineUpdates(ApplyLineUpdate(pl, Head(us)), Tail(us))

\* mutant: the except branch does not roll back
rollback_missing(t) == t

\* self.db_conn.rollback() (line 195): the open transaction's writes are dropped
rollback(t) == EmptyTxn

\* self.db_conn.commit() (line 190): every write of the open transaction
\* becomes part of the committed store
commit(sd, pl, al, t) ==
    [sensor_data |-> sd \o t.sensor_data,
     production_lines |-> ApplyLineUpdates(pl, t.production_lines),
     alerts |-> al \o t.alerts]

\* line 210 raises KeyError without the key, line 212 for a line that is
\* no key of by_line
StatsRaises(m) ==
    \/ m.missing = "production_line"
    \/ m.production_line \notin Lines

\* lines 210-216 of on_message; a KeyError leaves the increments made so far
update_statistics(st, m, pred) ==
    IF m.missing = "production_line" THEN st
    ELSE LET s1 == [st EXCEPT !.total_processed = @ + 1] IN
         IF m.production_line \notin DOMAIN st.by_line THEN s1
         ELSE LET s2 == [s1 EXCEPT !.by_line[m.production_line].total = @ + 1] IN
              IF pred = 1
              THEN [s2 EXCEPT !.defects_detected = @ + 1,
                              !.by_line[m.production_line].defects = @ + 1]
              ELSE s2

\* ------------------------------------------------------ acknowledge_alert
\* mutant: the UPDATE toggles the flag
AckStatement_toggle(al, pl, alert_id, ts) ==
    [alerts |-> [i \in DOMAIN al |->
                    IF al[i].id = alert_id
                    THEN [al[i] EXCEPT !.acknowledged = ~al[i].acknowledged,
                                       !.acknowledged_at = ts]
                    ELSE al[i]],
     production_lines |-> pl]

\* mutant: the UPDATE has no WHERE clause
AckStatement_all(al, pl, alert_id, ts) ==
    [alerts |-> [i \in DOMAIN al |->
                    [al[i] EXCEPT !.acknowledged = TRUE,
                                  !.acknowledged_at = ts]],
     production_lines |-> pl]

\* mutant: acknowledging also restarts the alert's production line
AckStatement_restart(al, pl, alert_id, ts) ==
    [alerts |-> [i \in DOMAIN al |->
                    IF al[i].id = alert_id
                    THEN [al[i] EXCEPT !.acknowledged = TRUE,
                                       !.acknowledged_at = ts]
                    ELSE al[i]],
     production_lines |->
         [l \in DOMAIN pl |->
             IF \E i \in DOMAIN al : al[i].id = alert_id /\ al[i].production_line = l
             THEN [pl[l] EXCEPT !.status = "Running", !.last_updated = ts]
             ELSE pl[l]]]

\* UPDATE alerts SET acknowledged = TRUE, acknowledged_at = CURRENT_TIMESTAMP
\* WHERE id = %s (lines 162-166); no other table is written
AckStatement(al, pl, alert_id, ts) ==
    [alerts |-> [i \in DOMAIN al |->
                    IF al[i].id = alert_id
                    THEN [al[i] EXCEPT !.acknowledged = TRUE,
                                       !.acknowledged_at = ts]
                    ELSE al[i]],
     production_lines |-> pl]

AlertIds == 1..(MaxMsgs + 1)

\* CURRENT_TIMESTAMP: the server's clock never runs backwards
Times == now..MaxClock

\* ------------------------------------------------------------------- Init
InitGateway ==
    /\ sensor_data = <<>>
    /\ production_lines =
           [l \in Lines |-> [status |-> "Idle", current_wafer_id |-> NoField,
                             last_updated |-> 0]]
    /\ alerts = <<>>
    /\ alert_seq = 0
    /\ now = 1
    /\ db_conn \in {"open", "none"}
    /\ txn = EmptyTxn
    /\ pc = "idle"
    /\ sensor_msg = NoMessage
    /\ prediction = 0
    /\ probability = 0
    /\ inferred = NoField
    /\ stats = [total_processed |-> 0, defects_detected |-> 0,
                by_line |-> [l \in Lines |-> [total |-> 0, defects |-> 0]]]
    /\ received = 0
    /\ outcome = "none"
    /\ discarded = 0
    /\ dash_conn \in BOOLEAN
    /\ ack_result = "none"

\* the MQTT client is created in __init__ and connects only in run()
InitBroker ==
    /\ mqtt_conn = "disconnected"
    /\ last_rc = 0
    /\ connects = 0
    /\ sub_pc = 0
    /\ subscribed = {}

\* the simulator at the head of its publish loop (device_publisher.py lines
\* 117-119) for a dataset with lens[line] rows of each line
InitSimulator(lens) ==
    /\ line_len = lens
    /\ indices = [l \in Lines |-> 0]
    /\ sim_pc = "while"
    /\ line_i = 1
    /\ msg_count = 0
    /\ rounds = 0
    /\ attempted = [l \in Lines |-> <<>>]

Init ==
    /\ InitGateway
    /\ InitBroker
    /\ InitSimulator([l \in Lines |-> 0])

\* ---------------------------------------------------------------- actions
KeepLocals == UNCHANGED <<sensor_msg, prediction, probability, inferred>>

\* mutant: the handler runs store_to_database again after the rollback
RolledBack_retry ==
    /\ txn' = rollback(txn)
    /\ pc' = "store"
    /\ outcome' = "rolled_back"
    /\ KeepLocals
    /\ discarded' = TxnWrites(txn)

\* except-branch of store_to_database (lines 193-195), then back in on_message
RolledBack ==
    /\ txn' = rollback(txn)
    /\ pc' = "stats"
    /\ outcome' = "rolled_back"
    /\ KeepLocals
    /\ discarded' = TxnWrites(txn)

\* mutant: on_message lets the exception escape and the network loop ends
Caught_crash == "crashed"

\* except Exception in on_message (lines 224-225): the error is printed, the
\* handler returns and the gateway waits for the next message
Caught == "idle"

\* the connection is gone: the statement raises and so does rollback(), the
\* exception leaves store_to_database and is caught at line 224
ConnError ==
    /\ txn' = txn
    /\ pc' = Caught
    /\ outcome' = "none"
    /\ discarded' = 0
    /\ sensor_msg' = NoMessage
    /\ prediction' = 0
    /\ probability' = 0
    /\ inferred' = NoField

\* lines 199-204: decode the payload and predict
on_message(m) ==
    /\ pc = "idle"
    /\ received < MaxMsgs
    /\ received' = received + 1
    /\ IF m.kind # "json"
       THEN /\ pc' = Caught
            /\ UNCHANGED <<sensor_msg, prediction, probability, inferred>>
       ELSE /\ pc' = "store"
            /\ sensor_msg' = m
            /\ prediction' = predict_defect(m)[1]
            /\ probability' = predict_defect(m)[2]
            /\ inferred' = Inference(m)
    /\ UNCHANGED <<sensor_data, production_lines, alerts, alert_seq, now,
                   db_conn, txn, stats, outcome, discarded, dash_conn,
                   ack_result>>
    /\ UNCHANGED <<mqtt_vars, sim_vars>>

\* lines 129-167: the connection check, cursor() and the INSERT INTO sensor_data
store_insert_sensor_data ==
    /\ pc = "store"
    /\ CASE db_conn = "none" ->
                /\ pc' = "stats"
                /\ txn' = txn
                /\ outcome' = "skipped"
                /\ KeepLocals
                /\ discarded' = discarded
         [] db_conn = "broken" -> ConnError
         [] db_conn = "open" ->
                \E ok \in BOOLEAN :
                    IF ok /\ StoreArgsOk(sensor_msg)
                    THEN /\ txn' = [txn EXCEPT !.sensor_data =
                                       Append(@, SensorRow(sensor_msg, prediction,
                                                           probability, inferred))]
                         /\ pc' = "update_line"
                         /\ UNCHANGED <<outcome, discarded>>
                         /\ KeepLocals
                    ELSE RolledBack
    /\ UNCHANGED <<sensor_data, production_lines, alerts, alert_seq, now,
                   db_conn, stats, received, dash_conn, ack_result>>
    /\ UNCHANGED <<mqtt_vars, sim_vars>>

\* lines 169-178: the UPDATE production_lines
store_update_line ==
    /\ pc = "update_line"
    /\ CASE db_conn = "broken" -> ConnError /\ now' = now
         [] db_conn = "open" ->
                \/ \E ts \in Times :
                      /\ now' = ts
                      /\ txn' = [txn EXCEPT !.production_lines =
                                    Append(@, LineUpdate(sensor_msg, ts))]
                      /\ pc' = IF NeedsAlert(prediction)
                               THEN "insert_alert" ELSE "commit"
                      /\ UNCHANGED <<outcome, discarded>>
                      /\ KeepLocals
                \/ RolledBack /\ now' = now
    /\ UNCHANGED <<sensor_data, production_lines, alerts, alert_seq,
                   db_conn, stats, received, dash_conn, ack_result>>
    /\ UNCHANGED <<mqtt_vars, sim_vars>>

\* lines 179-188: the INSERT INTO alerts; the id comes from the table's
\* sequence, which a rollback does not rewind
store_insert_alert ==
    /\ pc = "insert_alert"
    /\ CASE db_conn = "broken" -> ConnError /\ alert_seq' = alert_seq
         [] db_conn = "open" ->
                \E ok \in BOOLEAN :
                    IF ok
                    THEN /\ alert_seq' = alert_seq + 1
                         /\ txn' = [txn EXCEPT !.alerts =
                                       Append(@, AlertRow(alert_seq + 1, sensor_msg,
                                                          probability))]
                         /\ pc' = "commit"
                         /\ UNCHANGED <<outcome, discarded>>
                         /\ KeepLocals
                    ELSE RolledBack /\ alert_seq' = alert_seq
    /\ UNCHANGED <<sensor_data, production_lines, alerts, now,
                   db_conn, stats, received, dash_conn, ack_result>>
    /\ UNCHANGED <<mqtt_vars, sim_vars>>

\* lines 190-195: commit, or rollback when the commit raises
store_commit ==
    /\ pc = "commit"
    /\ CASE db_conn = "broken" -> ConnError /\ UNCHANGED store_vars
         [] db_conn = "open" ->
                \E ok \in BOOLEAN :
                    IF ok
                    THEN LET c == commit(sensor_data, production_lines, alerts, txn) IN
                         /\ sensor_data' = c.sensor_data
                         /\ production_lines' = c.production_lines
                         /\ alerts' = c.alerts
                         /\ txn' = EmptyTxn
                         /\ pc' = "stats"
                         /\ outcome' = "committed"
                         /\ KeepLocals
                         /\ discarded' = discarded
                    ELSE RolledBack /\ UNCHANGED store_vars
    /\ UNCHANGED <<alert_seq, now, db_conn, stats, received, dash_conn, ack_result>>
    /\ UNCHANGED <<mqtt_vars, sim_vars>>

\* lines 209-216: the statistics, after store_to_database returned
on_message_statistics ==
    /\ pc = "stats"
    /\ stats' = update_statistics(stats, sensor_msg, prediction)
    /\ pc' = IF StatsRaises(sensor_msg) THEN Caught ELSE "idle"
    /\ outcome' = "none"
    /\ discarded' = 0
    /\ sensor_msg' = NoMessage
    /\ prediction' = 0
    /\ probability' = 0
    /\ inferred' = NoField
    /\ UNCHANGED <<sensor_data, production_lines, alerts, alert_seq, now, db_conn,
                   txn, received, dash_conn, ack_result>>
    /\ UNCHANGED <<mqtt_vars, sim_vars>>

\* the server or the network drops the gateway's connection; the server
\* aborts its open transaction.  The gateway never reconnects.
connection_lost ==
    /\ db_conn = "open"
    /\ db_conn' = "broken"
    /\ txn' = EmptyTxn
    /\ UNCHANGED <<sensor_data, production_lines, alerts, alert_seq, now, pc,
                   sensor_msg, prediction, probability, inferred, stats, received,
                   outcome, discarded, dash_conn, ack_result>>
    /\ UNCHANGED <<mqtt_vars, sim_vars>>

\* dashboard.py acknowledge_alert (lines 152-174), one autonomous transaction
acknowledge_alert(alert_id) ==
    /\ IF ~dash_conn
       THEN /\ ack_result' = "False"
            /\ UNCHANGED <<alerts, production_lines>>
            /\ now' = now
       ELSE \/ \E ts \in Times :
                  LET r == AckStatement(alerts, production_lines, alert_id, ts) IN
                  /\ now' = ts
                  /\ alerts' = r.alerts
                  /\ production_lines' = r.production_lines
                  /\ ack_result' = "True"
            \/ /\ ack_result' = "False"
               /\ UNCHANGED <<alerts, production_lines, now>>
    /\ UNCHANGED <<sensor_data, alert_seq, dash_conn>>
    /\ UNCHANGED gateway_vars
    /\ UNCHANGED <<mqtt_vars, sim_vars>>

\* the steps of the handler after a message was taken: paho runs the
\* callback to its end before it reads the next packet
GatewayProgress ==
    \/ store_insert_sensor_data
    \/ store_update_line
    \/ store_insert_alert
    \/ store_commit
    \/ on_message_statistics

Next ==
    \/ \E m \in Messages : on_message(m)
    \/ store_insert_sensor_data
    \/ store_update_line
    \/ store_insert_alert
    \/ store_commit
    \/ on_message_statistics
    \/ connection_lost
    \/ \E id \in AlertIds : acknowledge_alert(id)

Spec == Init /\ [][Next]_vars

\* Ctrl+C: KeyboardInterrupt is no Exception, so neither the except of
\* store_to_database (line 193) nor that of on_message (line 224) catches
\* it. It is raised in the main thread, which runs the callback, wherever
\* the handler is, and reaches run() (line 238), whose finally closes the
\* connection; the server discards the transaction that was open.
keyboard_interrupt ==
    /\ pc # "stopped"
    /\ pc' = "stopped"
    /\ txn' = EmptyTxn
    /\ db_conn' = IF db_conn = "none" THEN "none" ELSE "closed"
    /\ outcome' = "none"
    /\ discarded' = TxnWrites(txn)
    /\ sensor_msg' = NoMessage
    /\ prediction' = 0
    /\ probability' = 0
    /\ inferred' = NoField
    /\ UNCHANGED <<sensor_data, production_lines, alerts, alert_seq, now, stats,
                   received, dash_conn, ack_result>>
    /\ UNCHANGED <<mqtt_vars, sim_vars>>

NextShutdown ==
    \/ Next
    \/ keyboard_interrupt

\* the gateway with an operator who may stop it
SpecShutdown == Init /\ [][NextShutdown]_vars

\* ------------------------------------------------------------ on_connect
\* MQTT_TOPICS of edge_gateway.py (lines 17-21)
MQTT_TOPICS ==
    <<"factory/line1/lithography", "factory/line2/etching",
      "factory/line3/deposition">>

\* the return codes of a CONNACK: 0 accepts the connection, 1 to 5 refuse it
ReturnCodes == 0..5

\* mutant: the topics are subscribed whatever the return code
ShouldSubscribe_any(rc) == TRUE

\* line 77: if rc == 0
ShouldSubscribe(rc) == rc = 0

\* paho hands the CONNACK to on_connect (line 76), at the first connection
\* and at every reconnection of loop_forever
on_connect(rc) ==
    /\ mqtt_conn = "disconnected"
    /\ connects < MaxConnects
    /\ connects' = connects + 1
    /\ last_rc' = rc
    /\ mqtt_conn' = IF rc = 0 THEN "connected" ELSE "refused"
    /\ subscribed' = {}
    /\ sub_pc' = IF ShouldSubscribe(rc) THEN 1 ELSE 0
    /\ UNCHANGED <<sensor_data, production_lines, alerts, alert_seq, now,
                   dash_conn, ack_result>>
    /\ UNCHANGED <<gateway_vars, sim_vars>>

\* one pass of the for loop of lines 80-82
on_connect_subscribe ==
    /\ sub_pc \in DOMAIN MQTT_TOPICS
    /\ subscribed' = subscribed \cup {MQTT_TOPICS[sub_pc]}
    /\ sub_pc' = IF sub_pc = Len(MQTT_TOPICS) THEN 0 ELSE sub_pc + 1
    /\ UNCHANGED <<mqtt_conn, last_rc, connects>>
    /\ UNCHANGED <<sensor_data, production_lines, alerts, alert_seq, now,
                   dash_conn, ack_result>>
    /\ UNCHANGED <<gateway_vars, sim_vars>>

\* the broker or the network ends the session, or the refused client gives
\* up the socket; loop_forever (line 237) connects again
session_ended ==
    /\ mqtt_conn \in {"connected", "refused"}
    /\ sub_pc = 0
    /\ mqtt_conn' = "disconnected"
    /\ UNCHANGED <<last_rc, connects, sub_pc, subscribed>>
    /\ UNCHANGED <<sensor_data, production_lines, alerts, alert_seq, now,
                   dash_conn, ack_result>>
    /\ UNCHANGED <<gateway_vars, sim_vars>>

NextBroker ==
    \/ \E rc \in ReturnCodes : on_connect(rc)
    \/ on_connect_subscribe
    \/ session_ended

\* the gateway's broker session
SpecBroker == Init /\ [][NextBroker]_vars

\* -------------------------------------------------------- run_simulation
\* the keys of line_data and of indices in insertion order (lines 100-104),
\* which is the order the for loop of line 123 visits them in
SimLines == <<"Lithography", "Etching", "Deposition">>

\* the datasets: every number of rows per line up to the bound
Datasets == [Lines -> 0..MaxRows]

\* mutant: a row whose publish failed is tried again in the next round
Advance_retry(idx, ok) == IF ok THEN idx + 1 ELSE idx

\* line 135: indices[line] += 1, outside the if of line 130
Advance(idx, ok) == idx + 1

\* line 121: the condition of the while loop; the loop is left when no line
\* has a row left (rounds is capped for the model's sake)
sim_while ==
    /\ sim_pc = "while"
    /\ rounds <= MaxRows
    /\ sim_pc' = IF \E l \in Lines : indices[l] < line_len[l]
                 THEN "for" ELSE "done"
    /\ line_i' = 1
    /\ UNCHANGED <<line_len, indices, msg_count, rounds, attempted>>
    /\ UNCHANGED <<sensor_data, production_lines, alerts, alert_seq, now,
                   dash_conn, ack_result>>
    /\ UNCHANGED <<gateway_vars, mqtt_vars>>

\* lines 123-135: the body of the for loop for one line; publish_sensor_data
\* returns whether client.publish gave MQTT_ERR_SUCCESS (line 89). After the
\* last line comes time.sleep (line 137) and the next test of the while.
sim_publish ==
    /\ sim_pc = "for"
    /\ LET line == SimLines[line_i] IN
       IF indices[line] < line_len[line]
       THEN \E ok \in BOOLEAN :
                /\ msg_count' = IF ok THEN msg_count + 1 ELSE msg_count
                /\ attempted' = [attempted EXCEPT ![line] =
                                    Append(@, [row |-> indices[line], ok |-> ok])]
                /\ indices' = [indices EXCEPT ![line] = Advance(@, ok)]
       ELSE UNCHANGED <<msg_count, attempted, indices>>
    /\ IF line_i = Len(SimLines)
       THEN /\ sim_pc' = "while"
            /\ line_i' = 1
            /\ rounds' = rounds + 1
       ELSE /\ sim_pc' = "for"
            /\ line_i' = line_i + 1
            /\ rounds' = rounds
    /\ line_len' = line_len
    /\ UNCHANGED <<sensor_data, production_lines, alerts, alert_seq, now,
                   dash_conn, ack_result>>
    /\ UNCHANGED <<gateway_vars, mqtt_vars>>

NextSim ==
    \/ sim_while
    \/ sim_publish

\* the simulator started on any dataset
InitSim ==
    /\ InitGateway
    /\ InitBroker
    /\ \E lens \in Datasets : InitSimulator(lens)

SpecSim == InitSim /\ [][NextSim]_vars

\* the broker hands the next publication to the callback
Deliver == \E m \in Messages : on_message(m)

\* loop_forever (line 235) keeps dispatching: a callback that has started
\* runs to its end, and a message that can be delivered is delivered
FairSpec == Spec /\ WF_vars(GatewayProgress) /\ WF_vars(Deliver)

\* ------------------------------------------------------------ properties
GatewayStep == pc' # pc \/ received' # received

AckStep == \E id \in AlertIds : acknowledge_alert(id)

Exists(al, id) == \E i \in DOMAIN al : al[i].id = id

Acknowledged(al, id) == \E i \in DOMAIN al : al[i].id = id /\ al[i].acknowledged

RowsOf(l) == { i \in DOMAIN sensor_data : sensor_data[i].production_line = l }

DefectRowsOf(l) == { i \in RowsOf(l) : sensor_data[i].predicted_defect = 1 }

Unseen(m) ==
    \/ ~CanEncode(Join_Status_classes, m.join_status)
    \/ ~CanEncode(Tool_Type_classes, m.production_line)

RowsChanged ==
    \/ sensor_data' # sensor_data
    \/ production_lines' # production_lines
    \/ Len(alerts') # Len(alerts)

\* the committed store after all writes of the event being handled, and
\* nothing else, were applied to the committed store before the step
AllWritesOfEvent ==
    /\ sensor_data' = Append(sensor_data,
                             SensorRow(sensor_msg, prediction, probability, inferred))
    /\ \E ts \in 1..MaxClock :
           production_lines' =
               ApplyLineUpdate(production_lines, LineUpdate(sensor_msg, ts))
    /\ IF prediction = 1
       THEN \E id \in 1..alert_seq :
                alerts' = Append(alerts, AlertRow(id, sensor_msg, probability))
       ELSE alerts' = alerts

\* C1: the committed store changes its rows only at the commit of the event
\* being handled, and then by all of that event's writes at once (the
\* sensor_data row, the production_lines update, the alert row iff the
\* decision is true); a step that ends in a rollback leaves the committed
\* store as it was, and writes of a rolled-back event are not part of a
\* later commit.
C1_AtomicPersistence ==
    [][ /\ RowsChanged => /\ pc = "commit"
                          /\ outcome' = "committed"
                          /\ AllWritesOfEvent
        /\ (GatewayStep /\ outcome' = "rolled_back") => UNCHANGED store_vars ]_vars

\* an event commits after the three writes of an earlier event, its alert
\* row among them, were rolled back
C1_Witness ==
    /\ outcome = "committed"
    /\ alert_seq > Len(alerts)

\* C2: a step that persists an event adds exactly one alert row when the
\* event's decision is true and none when it is false; no other step adds or
\* removes an alert row.
C2_AlertIffDecision ==
    [][ IF Len(sensor_data') > Len(sensor_data)
        THEN Len(alerts') = Len(alerts)
                 + (IF sensor_data'[Len(sensor_data')].predicted_defect = 1
                    THEN 1 ELSE 0)
        ELSE Len(alerts') = Len(alerts) ]_vars

\* an event with decision true was just persisted with its alert, next to a
\* persisted event with decision false
C2_Witness ==
    /\ outcome = "committed"
    /\ prediction = 1
    /\ Len(alerts) = 1
    /\ \E i \in DOMAIN sensor_data : sensor_data[i].predicted_defect = 0

\* C3: acknowledging an alert that is already acknowledged changes neither
\* its flag nor its acknowledgedAt and does not report success.
C3_AlreadyAcknowledgedRejected ==
    [][ \A id \in AlertIds :
            (Acknowledged(alerts, id) /\ acknowledge_alert(id))
                => (alerts' = alerts /\ ack_result' # "True") ]_vars

\* C4: acknowledging an id that is not in alerts leaves the store unchanged
\* and does not report success.
C4_NotFoundReported ==
    [][ \A id \in AlertIds :
            (~Exists(alerts, id) /\ acknowledge_alert(id))
                => (UNCHANGED store_vars /\ ack_result' # "True") ]_vars

\* C5: between messages, each line's total counter equals the number of
\* committed events of that line and its defects counter the number of those
\* with decision true.
C5_StatsEqualCommitted ==
    pc = "idle" =>
        \A l \in Lines :
            /\ stats.by_line[l].total = Cardinality(RowsOf(l))
            /\ stats.by_line[l].defects = Cardinality(DefectRowsOf(l))

\* C6: while an event with a join_status or production line outside the
\* trained vocabulary is handled, no row is added to sensor_data or alerts,
\* no production_lines row changes and no statistics counter changes.
C6_UnseenCategoryDropped ==
    [][ (pc # "idle" /\ Unseen(sensor_msg) /\ GatewayStep)
            => (~RowsChanged /\ stats' = stats) ]_vars

\* C7: no committed sensor_data row belongs to an event whose model
\* invocation raised: such an event is never stored as predicted_defect 0
\* with probability 0.
C7_NoFabricatedPrediction ==
    \A i \in DOMAIN sensor_data : sensor_data[i].inference # "model_error"

\* C8: while an event that lacks rf_power is handled, no row is written and
\* total_processed and the per-line totals stay as they were.
C8_MissingFieldFailsWhole ==
    [][ (pc # "idle" /\ sensor_msg.missing = "rf_power" /\ GatewayStep)
            => /\ ~RowsChanged
               /\ stats'.total_processed = stats.total_processed
               /\ \A l \in Lines :
                      stats'.by_line[l].total = stats.by_line[l].total ]_vars

\* C9: every alert row stays in the table with its id, and an acknowledged
\* alert is acknowledged after every step of the gateway and the dashboard.
C9_AcknowledgedIsTerminal ==
    [][ \A i \in DOMAIN alerts :
            /\ i \in DOMAIN alerts'
            /\ alerts'[i].id = alerts[i].id
            /\ alerts[i].acknowledged => alerts'[i].acknowledged ]_vars

\* an acknowledged alert while the gateway holds an open transaction with a
\* new alert, about to commit
C9_Witness ==
    /\ pc = "commit"
    /\ txn.alerts # <<>>
    /\ \E i \in DOMAIN alerts : alerts[i].acknowledged

\* C10: acknowledge_alert, for an existing or a missing id, leaves status,
\* current wafer and last-updated of every production_lines row unchanged.
C10_AckLeavesLineState ==
    [][ AckStep => production_lines' = production_lines ]_vars

\* an acknowledgment succeeded on an alert, later than the last update of
\* the alert's production line
C10_Witness ==
    /\ ack_result = "True"
    /\ \E i \in DOMAIN alerts :
           /\ alerts[i].acknowledged
           /\ production_lines[alerts[i].production_line].status = "Running"
           /\ alerts[i].acknowledged_at >
                  production_lines[alerts[i].production_line].last_updated

\* C11: whenever inference succeeded, the decision is exactly
\* (probability >= threshold), for the event being handled and for every
\* committed row; at probability = threshold the decision is true.  The
\* threshold is the one value loaded at startup.
C11_DecisionIsThreshold ==
    /\ (pc # "idle" /\ inferred = "ok")
           => (prediction = 1 <=> probability >= threshold)
    /\ \A i \in DOMAIN sensor_data :
           sensor_data[i].inference = "ok"
               => (sensor_data[i].predicted_defect = 1
                       <=> sensor_data[i].defect_probability >= threshold)

\* an event whose probability equals the threshold was persisted as a defect
C11_Witness ==
    \E i \in DOMAIN sensor_data :
        /\ sensor_data[i].inference = "ok"
        /\ sensor_data[i].defect_probability = threshold
        /\ sensor_data[i].predicted_defect = 1

\* C12: a step that persists an event leaves a production_lines row for the
\* event's line with status Running and the event's wafer as current wafer,
\* whether or not such a row existed before.
C12_LineStateUpserted ==
    [][ Len(sensor_data') > Len(sensor_data)
            => LET r == sensor_data'[Len(sensor_data')] IN
               /\ r.production_line \in DOMAIN production_lines'
               /\ production_lines'[r.production_line].status = "Running"
               /\ production_lines'[r.production_line].current_wafer_id
                      = r.wafer_id ]_vars

LatestRowsOf(l) ==
    { i \in RowsOf(l) :
        \A j \in RowsOf(l) : sensor_data[j].timestamp <= sensor_data[i].timestamp }

\* C13: the current wafer of every line that has persisted events is the
\* wafer of a persisted event of that line with the most recent event
\* timestamp, in whatever order the events were processed.
C13_MostRecentTimestampWins ==
    \A l \in Lines :
        RowsOf(l) # {}
            => \E i \in LatestRowsOf(l) :
                   production_lines[l].current_wafer_id = sensor_data[i].wafer_id

\* C14: the handler never ends in an escaped exception: whatever failed
\* before, it is idle with no open transaction or gets on with its next
\* step; the next message can be taken, and for a valid event on an open
\* connection every step up to the commit and the counting is possible.
C14_PipelineContinues ==
    /\ pc \in {"idle", "store", "update_line", "insert_alert", "commit", "stats"}
    /\ pc # "idle" => ENABLED GatewayProgress
    /\ pc = "idle" => (txn = EmptyTxn /\ sensor_msg = NoMessage)
    /\ (pc = "idle" /\ received < MaxMsgs)
           => \A m \in Messages : ENABLED on_message(m)
    /\ (pc = "store" /\ db_conn = "open" /\ StoreArgsOk(sensor_msg))
           => ENABLED (store_insert_sensor_data /\ pc' = "update_line")
    /\ (pc = "update_line" /\ db_conn = "open")
           => ENABLED (store_update_line /\ pc' \in {"insert_alert", "commit"})
    /\ (pc = "insert_alert" /\ db_conn = "open")
           => ENABLED (store_insert_alert /\ pc' = "commit")
    /\ (pc = "commit" /\ db_conn = "open")
           => ENABLED (store_commit /\ outcome' = "committed")
    /\ (pc = "stats" /\ ~StatsRaises(sensor_msg))
           => ENABLED (on_message_statistics
                       /\ stats'.total_processed = stats.total_processed + 1)

\* a valid event is committed as the second message, after a first message
\* that failed before it was counted
C14_Witness ==
    /\ pc = "stats"
    /\ outcome = "committed"
    /\ inferred = "ok"
    /\ received = 2
    /\ stats.total_processed = 0

\* C15: a gateway without a usable store connection, while the store itself
\* accepts connections (the dashboard holds one), eventually has an open
\* connection again, so that it does not skip persistence for ever.
C15_Reconnects == (dash_conn /\ db_conn # "open") ~> (db_conn = "open")

\* C16: a persistence attempt starts only with a newly received message, and
\* once the transaction of an event is rolled back the handler writes nothing
\* more for it: it goes on to its statistics with an empty transaction and
\* the stored rows as they were.
C16_NoRetry ==
    [][ /\ (pc' = "store" /\ pc # "store") => received' = received + 1
        /\ (pc = "store" /\ GatewayStep) => pc' # "store"
        /\ (GatewayStep /\ outcome' = "rolled_back")
               => (pc' = "stats" /\ txn' = EmptyTxn /\ UNCHANGED store_vars)
        /\ (GatewayStep /\ outcome = "rolled_back")
               => (pc' = "idle" /\ txn' = EmptyTxn /\ UNCHANGED store_vars
                   /\ received' = received)
      ]_vars

\* the commit of an event with all three writes failed and was rolled back
C16_Witness ==
    /\ pc = "stats"
    /\ outcome = "rolled_back"
    /\ discarded = 3
    /\ sensor_data = <<>>
    /\ alerts = <<>>

\* C17: a shutdown signal does not stop the handler between the writes of
\* an event: while the event's transaction holds uncommitted writes, the
\* gateway is not stopped.
C17_InFlightDrains ==
    [][ (pc \in {"update_line", "insert_alert", "commit"} /\ TxnWrites(txn) > 0)
            => pc' # "stopped" ]_vars

\* C18: a production line that is Running is Running after every step, be
\* it a step of the gateway or an acknowledgment.
C18_RunningIsStable ==
    [][ \A l \in DOMAIN production_lines :
            production_lines[l].status = "Running"
                => production_lines'[l].status = "Running" ]_vars

\* a Running line after two committed events of that line, both with
\* decision true, and an acknowledgment of one of their alerts
C18_Witness ==
    /\ production_lines["Etching"].status = "Running"
    /\ Len(sensor_data) = 2
    /\ \A i \in DOMAIN sensor_data :
           /\ sensor_data[i].production_line = "Etching"
           /\ sensor_data[i].predicted_defect = 1
    /\ \E i \in DOMAIN alerts : alerts[i].acknowledged

\* the same event with the other value of the ground-truth flag
FlipActual(m) == [m EXCEPT !.actual_defect = 1 - @]

\* C19: whatever the handler has computed and written for the event in
\* hand, it would have computed and written for the event with the other
\* value of actual_defect: the same outcome of the inference, probability
\* and decision, the same LineState update and alert, and the same
\* sensor_data row but for its actual_defect column.
C19_GroundTruthUnused ==
    pc \in {"store", "update_line", "insert_alert", "commit", "stats"} =>
        LET twin == FlipActual(sensor_msg) IN
        /\ inferred = Inference(twin)
        /\ <<prediction, probability>> = predict_defect(twin)
        /\ StoreArgsOk(sensor_msg) = StoreArgsOk(twin)
        /\ \A i \in DOMAIN txn.sensor_data :
               /\ txn.sensor_data[i].actual_defect = sensor_msg.actual_defect
               /\ [txn.sensor_data[i] EXCEPT !.actual_defect = twin.actual_defect]
                      = SensorRow(twin, predict_defect(twin)[1],
                                  predict_defect(twin)[2], Inference(twin))
        /\ \A i \in DOMAIN txn.production_lines :
               txn.production_lines[i]
                   = LineUpdate(twin, txn.production_lines[i].last_updated)
        /\ \A i \in DOMAIN txn.alerts :
               txn.alerts[i]
                   = AlertRow(txn.alerts[i].id, twin, predict_defect(twin)[2])
        /\ (pc = "commit" /\ db_conn = "open") =>
               (txn.alerts # <<>> <=> NeedsAlert(predict_defect(twin)[1]))

\* two committed events that differ in actual_defect only: their rows differ
\* in that column only and both raised an alert with the same probability
C19_Witness ==
    /\ Len(sensor_data) = 2
    /\ sensor_data[1].actual_defect # sensor_data[2].actual_defect
    /\ [sensor_data[1] EXCEPT !.actual_defect = 0]
           = [sensor_data[2] EXCEPT !.actual_defect = 0]
    /\ Len(alerts) = 2
    /\ alerts[1].defect_probability = alerts[2].defect_probability
    /\ alerts[1].wafer_id = alerts[2].wafer_id

\* C20: a step of the dashboard leaves every sensor_data row and the
\* gateway's statistics and open transaction as they were and adds or
\* removes no alert row; acknowledge_alert(id) leaves every alert row with
\* another id as it was and changes nothing but acknowledged and
\* acknowledged_at of the row with that id; a commit of the gateway leaves
\* every alert row that is already stored, acknowledged or not, as it is and
\* adds exactly the rows of its transaction.
C20_AckFrame ==
    [][ /\ (~GatewayStep /\ db_conn' = db_conn) =>
               /\ sensor_data' = sensor_data
               /\ stats' = stats
               /\ txn' = txn
               /\ DOMAIN alerts' = DOMAIN alerts
        /\ (~GatewayStep /\ alerts' # alerts) =>
               \A id \in AlertIds :
                   acknowledge_alert(id) =>
                       \A i \in DOMAIN alerts :
                           IF alerts[i].id = id
                           THEN [alerts'[i] EXCEPT
                                     !.acknowledged = alerts[i].acknowledged,
                                     !.acknowledged_at = alerts[i].acknowledged_at]
                                    = alerts[i]
                           ELSE alerts'[i] = alerts[i]
        /\ (GatewayStep /\ outcome' = "committed") =>
               /\ alerts' = alerts \o txn.alerts
               /\ sensor_data' = sensor_data \o txn.sensor_data
      ]_vars

\* an alert was acknowledged at time 2, after the gateway's UPDATE of time 1
\* in its open transaction, which holds a new alert and is about to commit
C20_Witness ==
    /\ pc = "commit"
    /\ txn.alerts # <<>>
    /\ txn.production_lines # <<>>
    /\ txn.production_lines[1].last_updated = 1
    /\ \E i \in DOMAIN alerts :
           alerts[i].acknowledged /\ alerts[i].acknowledged_at = 2

\* the production line an event names, if it names one
LineOf(m) == IF m.missing = "production_line" THEN NoField ELSE m.production_line

\* C21: a step of the handler for an event of line L leaves the
\* production_lines row and the per-line counters of every other line as
\* they were; taking a message changes no row and no counter at all.
C21_OtherLinesUntouched ==
    [][ /\ (GatewayStep /\ pc # "idle") =>
               \A l \in Lines :
                   l # LineOf(sensor_msg) =>
                       /\ production_lines'[l] = production_lines[l]
                       /\ stats'.by_line[l] = stats.by_line[l]
        /\ (GatewayStep /\ pc = "idle") =>
               /\ production_lines' = production_lines
               /\ stats'.by_line = stats.by_line
      ]_vars

\* an Etching event and then a Lithography event were committed and counted:
\* each line shows its own event, Deposition was never touched
C21_Witness ==
    /\ pc = "idle"
    /\ received = 2
    /\ production_lines["Etching"].status = "Running"
    /\ production_lines["Lithography"].status = "Running"
    /\ production_lines["Etching"].last_updated
           < production_lines["Lithography"].last_updated
    /\ production_lines["Deposition"].status = "Idle"
    /\ stats.by_line["Etching"].total = 1
    /\ stats.by_line["Lithography"].total = 1
    /\ stats.by_line["Deposition"].total = 0

\* C22: the global counters are the sums of the per-line counters.
C22_CountersAgree ==
    /\ stats.total_processed
           = stats.by_line["Lithography"].total + stats.by_line["Etching"].total
             + stats.by_line["Deposition"].total
    /\ stats.defects_detected
           = stats.by_line["Lithography"].defects + stats.by_line["Etching"].defects
             + stats.by_line["Deposition"].defects

\* the committed sensor_data rows with decision true, in insertion order
DefectRows == SelectSeq(sensor_data, LAMBDA r : r.predicted_defect = 1)

\* C23: the committed store holds as many alerts as sensor_data rows with
\* predicted_defect = 1, and the k-th alert carries the production line,
\* wafer id and defect probability of the k-th such row.
C23_AlertsMatchDefectRows ==
    /\ Len(alerts) = Len(DefectRows)
    /\ \A k \in DOMAIN alerts :
           /\ alerts[k].production_line = DefectRows[k].production_line
           /\ alerts[k].wafer_id = DefectRows[k].wafer_id
           /\ alerts[k].defect_probability = DefectRows[k].defect_probability

\* a committed event without and then one with decision true: two rows, one
\* alert, for the second row
C23_Witness ==
    /\ Len(sensor_data) = 2
    /\ sensor_data[1].predicted_defect = 0
    /\ sensor_data[2].predicted_defect = 1
    /\ Len(alerts) = 1
    /\ alerts[1].wafer_id = sensor_data[2].wafer_id

\* C24: on_connect subscribes to nothing but the three topics; once it has
\* returned for rc = 0, at the first connection or a later one, all three
\* are subscribed; for rc # 0 none is, and the loop is not entered; inside
\* the loop the topics before the current one are subscribed and the loop
\* can go on.
C24_SubscribesOnSuccessOnly ==
    /\ subscribed \subseteq Range(MQTT_TOPICS)
    /\ (connects > 0 /\ last_rc = 0 /\ sub_pc = 0)
           => subscribed = Range(MQTT_TOPICS)
    /\ (connects > 0 /\ last_rc # 0) => (subscribed = {} /\ sub_pc = 0)
    /\ sub_pc # 0 =>
           /\ last_rc = 0
           /\ subscribed = { MQTT_TOPICS[k] : k \in 1..(sub_pc - 1) }
           /\ ENABLED on_connect_subscribe

\* the second CONNACK, an accepting one, has been handled to the end of
\* on_connect: all three topics are subscribed for the new session
C24_Witness ==
    /\ connects = 2
    /\ last_rc = 0
    /\ mqtt_conn = "connected"
    /\ sub_pc = 0
    /\ Cardinality(subscribed) = 3

\* the number of rows of the longest line
LongestLine == CHOOSE n \in 0..MaxRows :
                   /\ \A l \in Lines : line_len[l] <= n
                   /\ \E l \in Lines : line_len[l] = n

\* the publish calls of a line that succeeded
Succeeded(l) == Len(SelectSeq(attempted[l], LAMBDA a : a.ok))

====
